---------------------------- MODULE Spec2Model ----------------------------
(***************************************************************************)
(* A model of the shredlink benchmarking tool (src/src/benchmark.rs and    *)
(* the two stream clients): the correlation store                          *)
(* (DashMap<String, TransactionTimestamp>), the per-source handler tasks   *)
(* that upsert into it, the run() controller that races the clients        *)
(* against the timer, the report passes and LatencyStats::calculate.       *)
(*                                                                         *)
(* Time: the clock `now` counts whole seconds since run() set start_time;  *)
(* get_timestamp_ms() is now * 1000.  Option<u64> is a sequence of length  *)
(* at most one (<<>> is None, <<t>> is Some(t)).  An f64 is the exact      *)
(* rational <<num, den>> with den > 0.                                     *)
(***************************************************************************)
EXTENDS Integers, Sequences, FiniteSets, TLC

\* ------------------------------------------------------------------ bounds

\* Largest run duration (seconds) a run is started with.
MaxDuration == 2
\* The clock stops advancing here: late enough for every timer to expire.
MaxTime == MaxDuration
\* Distinct raw signatures the sources report.
NumSigs == 2
\* Events the clients deliver at most, all sources together, when they
\* report any of the NumSigs signatures.
MaxEventsAllSigs == 2
\* The same when every source reports one and the same signature.
MaxEventsOneSig == 3
\* Longest list of records handed to the statistics in StatsSpec.
MaxLen == 3
\* The arrival times of StatsSpec are 1000 + 10 * i for i in 0..MaxDiff.
MaxDiff == 2
\* Shards of the map in LockSpec.
NumShards == 2

\* ------------------------------------------------------- program constants

\* sleep(Duration::from_secs(1)): the timer's tick, in seconds.
TickSecs == 1
\* as_millis(): milliseconds per second.
MsPerSec == 1000

\* ------------------------------------------------------------ configuration

\* geyser_urls.keys(): the comparison sources.
Geysers == {"Geyser-a", "Geyser-b"}
\* The reference source.
Shredlink == "Shredlink"
Sources == Geysers \cup {Shredlink}

\* ------------------------------------------------------------ pure helpers

None == <<>>
Some(x) == <<x>>
IsSome(o) == Len(o) = 1
IsNone(o) == Len(o) = 0
Unwrap(o) == o[1]

\* The Bitcoin base58 alphabet used by bs58::encode.
Alphabet ==
  << "1","2","3","4","5","6","7","8","9",
     "A","B","C","D","E","F","G","H","J","K","L","M","N","P","Q","R","S","T","U","V","W","X","Y","Z",
     "a","b","c","d","e","f","g","h","i","j","k","m","n","o","p","q","r","s","t","u","v","w","x","y","z" >>

RECURSIVE LeadingZeros(_)
LeadingZeros(bytes) ==
  IF bytes = <<>> \/ bytes[1] # 0 THEN 0 ELSE 1 + LeadingZeros(Tail(bytes))

RECURSIVE BytesValue(_, _)
BytesValue(bytes, acc) ==
  IF bytes = <<>> THEN acc ELSE BytesValue(Tail(bytes), acc * 256 + bytes[1])

RECURSIVE Base58Digits(_)
Base58Digits(n) ==
  IF n = 0 THEN <<>> ELSE Append(Base58Digits(n \div 58), Alphabet[(n % 58) + 1])

\* bs58::encode(bytes).into_string(): one "1" per leading zero byte, then the
\* big-endian value of the bytes in base 58.
Bs58Encode(bytes) ==
  [i \in 1..LeadingZeros(bytes) |-> "1"] \o Base58Digits(BytesValue(bytes, 0))

\* The raw signatures the network carries (the byte strings a source decodes).
RawSig(i) == <<56 + i>>
RawSigs == { RawSig(i) : i \in 1..NumSigs }

\* What the network delivers in one run: the signatures the sources report
\* and how many events they deliver altogether.
Scenarios ==
  { [sigs |-> RawSigs, events |-> MaxEventsAllSigs],
    [sigs |-> {RawSig(1)}, events |-> MaxEventsOneSig] }

\* SystemTime::now() since the epoch, in milliseconds.
get_timestamp_ms(clock) == clock * MsPerSec

\* --------------------------------------------------- TransactionTimestamp

\* TransactionTimestamp::new()
NewTimestamp == [geyser_timestamps |-> <<>>, shredlink_timestamp |-> None]

\* Faulty variant: the inverted difference, shredlink_ts - geyser_ts.
latency_diffs_ms_inverted(entry) ==
  IF IsSome(entry.shredlink_timestamp)
    THEN [g \in DOMAIN entry.geyser_timestamps |->
            Unwrap(entry.shredlink_timestamp) - entry.geyser_timestamps[g]]
    ELSE <<>>

\* latency_diffs_ms: geyser_name -> geyser_ts - shredlink_ts, empty without a
\* Shredlink timestamp.
latency_diffs_ms(entry) ==
  IF IsSome(entry.shredlink_timestamp)
    THEN [g \in DOMAIN entry.geyser_timestamps |->
            entry.geyser_timestamps[g] - Unwrap(entry.shredlink_timestamp)]
    ELSE <<>>

has_any_geyser(entry) == DOMAIN entry.geyser_timestamps # {}


\* ------------------------------------------------------------ LatencyStats

RECURSIVE SumSeq(_)
SumSeq(s) ==
  IF Len(s) = 0 THEN 0
  ELSE IF Len(s) = 1 THEN s[1]
  ELSE LET half == Len(s) \div 2
       IN SumSeq(SubSeq(s, 1, half)) + SumSeq(SubSeq(s, half + 1, Len(s)))

\* Faulty variant: the statistics taken of the list as it was collected.
Unsorted(s) == s

\* sorted.sort_unstable(): ascending order of the i64 values.  Position i
\* holds the value v with fewer than i elements below it and at least i
\* elements not above it.
SortAsc(s) ==
  [i \in 1..Len(s) |->
     CHOOSE v \in {s[j] : j \in 1..Len(s)} :
       /\ Cardinality({j \in 1..Len(s) : s[j] < v}) < i
       /\ i <= Cardinality({j \in 1..Len(s) : s[j] <= v})]

MinOf(a, b) == IF a <= b THEN a ELSE b

\* Element i (0-based, as the source indexes) of a sequence.
At(s, i) == s[i + 1]

\* Faulty variant: the product rounded to the nearest integer.
RoundScaled(len, pct) == (len * pct + 50) \div 100

\* (len as f64 * p) as usize for p = pct/100: the truncated product.  The f64
\* product of a length below 2^53 with 0.95 or 0.99 rounds to the exact
\* integer whenever len * pct is a multiple of 100, so the truncation equals
\* the integer quotient.
TruncScaled(len, pct) == (len * pct) \div 100

\* Faulty variants: a zero diff counted as a win (x >= 0), and the inverted
\* sign convention (x < 0).
CountWinsNonNegative(sorted) == Cardinality({i \in 1..Len(sorted) : sorted[i] >= 0})
CountWinsNegative(sorted) == Cardinality({i \in 1..Len(sorted) : sorted[i] < 0})

\* sorted.iter().filter(|&&x| x > 0).count()
CountWins(sorted) == Cardinality({i \in 1..Len(sorted) : sorted[i] > 0})

\* Faulty variant: the statistics of an empty list computed as for any other
\* list, the sums divided by a length of zero (0.0 / 0.0 for every f64 field).
ZeroDividedStats ==
  [average |-> <<0, 0>>, median |-> <<0, 0>>, p95 |-> <<0, 0>>, p99 |-> <<0, 0>>,
   min |-> 0, max |-> 0, shredlink_wins_percentage |-> <<0, 0>>]

\* The value returned for latencies.is_empty().
ZeroStats ==
  [average |-> <<0, 1>>, median |-> <<0, 1>>, p95 |-> <<0, 1>>, p99 |-> <<0, 1>>,
   min |-> 0, max |-> 0, shredlink_wins_percentage |-> <<0, 1>>]

\* LatencyStats::calculate
calculate(latencies) ==
  IF latencies = <<>> THEN ZeroStats
  ELSE
    LET sorted == SortAsc(latencies)
        len == Len(sorted)
        average == <<SumSeq(sorted), len>>
        median == IF len % 2 = 0
                    THEN <<At(sorted, len \div 2 - 1) + At(sorted, len \div 2), 2>>
                    ELSE <<At(sorted, len \div 2), 1>>
        p95_idx == MinOf(TruncScaled(len, 95), len - 1)
        p99_idx == MinOf(TruncScaled(len, 99), len - 1)
        shredlink_wins == CountWins(sorted)
    IN [average |-> average, median |-> median,
        p95 |-> <<At(sorted, p95_idx), 1>>, p99 |-> <<At(sorted, p99_idx), 1>>,
        min |-> At(sorted, 0), max |-> At(sorted, len - 1),
        shredlink_wins_percentage |-> <<shredlink_wins * 100, len>>]

\* Exact comparison of two f64 values held as rationals.
RatEq(a, b) == a[1] * b[2] = b[1] * a[2]
RatLe(a, b) == a[1] * b[2] <= b[1] * a[2]

\* ------------------------------------------------------- the store's upsert

\* Faulty variant: the insert without the contains_key guard (last write wins).
GeyserAndModifyLastWrite(entry, geyser_name, timestamp) ==
  [entry EXCEPT !.geyser_timestamps =
     [g \in DOMAIN @ \cup {geyser_name} |-> IF g = geyser_name THEN timestamp ELSE @[g]]]

\* Faulty variant: the record's map of Geyser timestamps replaced by a map of
\* this Geyser alone.
GeyserAndModifyReplaceMap(entry, geyser_name, timestamp) ==
  IF geyser_name \notin DOMAIN entry.geyser_timestamps
    THEN [entry EXCEPT !.geyser_timestamps = (geyser_name :> timestamp)]
    ELSE entry

\* The and_modify closure of the Geyser handler: first write wins.
GeyserAndModify(entry, geyser_name, timestamp) ==
  IF geyser_name \notin DOMAIN entry.geyser_timestamps
    THEN [entry EXCEPT !.geyser_timestamps = @ @@ (geyser_name :> timestamp)]
    ELSE entry

\* The or_insert_with closure of the Geyser handler.
GeyserOrInsert(geyser_name, timestamp) ==
  [NewTimestamp EXCEPT !.geyser_timestamps = (geyser_name :> timestamp)]

\* Faulty variant: the assignment without the is_none() guard.
ShredlinkAndModifyLastWrite(entry, timestamp) ==
  [entry EXCEPT !.shredlink_timestamp = Some(timestamp)]

\* The and_modify closure of the Shredlink handler: first write wins.
ShredlinkAndModify(entry, timestamp) ==
  IF IsNone(entry.shredlink_timestamp)
    THEN [entry EXCEPT !.shredlink_timestamp = Some(timestamp)]
    ELSE entry

\* The or_insert_with closure of the Shredlink handler.
ShredlinkOrInsert(timestamp) ==
  [NewTimestamp EXCEPT !.shredlink_timestamp = Some(timestamp)]

\* Faulty variant: transactions.insert(signature, new entry), which replaces
\* the record another source has written.
UpsertGeyserOverwrite(store, geyser_name, signature, timestamp) ==
  [k \in DOMAIN store \cup {signature} |->
     IF k = signature THEN GeyserOrInsert(geyser_name, timestamp) ELSE store[k]]

\* transactions.entry(signature).and_modify(..).or_insert_with(..) of the
\* Geyser handler: one read-modify-write under the key's shard lock.
UpsertGeyser(store, geyser_name, signature, timestamp) ==
  IF signature \in DOMAIN store
    THEN [store EXCEPT ![signature] = GeyserAndModify(@, geyser_name, timestamp)]
    ELSE store @@ (signature :> GeyserOrInsert(geyser_name, timestamp))

\* Faulty variant: transactions.insert(signature, new entry).
UpsertShredlinkOverwrite(store, signature, timestamp) ==
  [k \in DOMAIN store \cup {signature} |->
     IF k = signature THEN ShredlinkOrInsert(timestamp) ELSE store[k]]

\* The same entry().and_modify().or_insert_with() of the Shredlink handler.
UpsertShredlink(store, signature, timestamp) ==
  IF signature \in DOMAIN store
    THEN [store EXCEPT ![signature] = ShredlinkAndModify(@, timestamp)]
    ELSE store @@ (signature :> ShredlinkOrInsert(timestamp))

\* One "latency observed" line: println!("{}: {}ms ({})", geyser_name, diff,
\* signature).
Notification(signature, geyser_name, diff) ==
  [signature |-> signature, geyser |-> geyser_name, diff |-> diff]

\* Faulty variant: the line printed after the contains_key test instead of
\* inside it, so also by an ignored duplicate.
GeyserNotificationsUnguarded(store, geyser_name, signature, timestamp) ==
  IF signature \in DOMAIN store
    THEN LET diffs == latency_diffs_ms(GeyserAndModify(store[signature], geyser_name, timestamp))
         IN IF geyser_name \in DOMAIN diffs
              THEN {Notification(signature, geyser_name, diffs[geyser_name])}
              ELSE {}
    ELSE {}

\* The lines the Geyser handler's upsert prints: inside and_modify, when the
\* timestamp was inserted and the record holds the Shredlink timestamp.
GeyserNotifications(store, geyser_name, signature, timestamp) ==
  IF signature \in DOMAIN store /\ geyser_name \notin DOMAIN store[signature].geyser_timestamps
    THEN LET diffs == latency_diffs_ms(GeyserAndModify(store[signature], geyser_name, timestamp))
         IN IF geyser_name \in DOMAIN diffs
              THEN {Notification(signature, geyser_name, diffs[geyser_name])}
              ELSE {}
    ELSE {}

\* The lines the Shredlink handler's upsert prints: inside and_modify, when
\* the Shredlink timestamp was set, one line per Geyser the record holds.
ShredlinkNotifications(store, signature, timestamp) ==
  IF signature \in DOMAIN store /\ IsNone(store[signature].shredlink_timestamp)
    THEN LET diffs == latency_diffs_ms(ShredlinkAndModify(store[signature], timestamp))
         IN {Notification(signature, g, diffs[g]) : g \in DOMAIN diffs}
    ELSE {}

Notifications(store, source, signature, timestamp) ==
  IF source = Shredlink
    THEN ShredlinkNotifications(store, signature, timestamp)
    ELSE GeyserNotifications(store, source, signature, timestamp)

\* The printed lines as a bag (line -> how often printed), with `lines` added.
Printed(bag, lines) ==
  [n \in DOMAIN bag \cup lines |->
     (IF n \in DOMAIN bag THEN bag[n] ELSE 0) + (IF n \in lines THEN 1 ELSE 0)]

\* upsert(source, id, t) for either kind of source.
Upsert(store, source, signature, timestamp) ==
  IF source = Shredlink
    THEN UpsertShredlink(store, signature, timestamp)
    ELSE UpsertGeyser(store, source, signature, timestamp)

\* The timestamp slot (event id, source) of a store, as an Option.
Slot(store, signature, source) ==
  IF signature \notin DOMAIN store THEN None
  ELSE IF source = Shredlink THEN store[signature].shredlink_timestamp
  ELSE IF source \in DOMAIN store[signature].geyser_timestamps
    THEN Some(store[signature].geyser_timestamps[source])
  ELSE None

\* ------------------------------------------------------ reads of the store

\* Faulty variant: a read that takes the entries out of the map (a drain in
\* place of iter()).
StoreAfterDrain(store) == <<>>

\* The map after self.transactions.len() and self.transactions.iter(): both
\* take &self and hand out shared references, the map is as it was.
StoreAfterRead(store) == store

\* Faulty variant: || in place of &&.
CountedMatchedEither(entry) == has_any_geyser(entry) \/ IsSome(entry.shredlink_timestamp)

\* The filter of get_current_stats.
CountedMatched(entry) == has_any_geyser(entry) /\ IsSome(entry.shredlink_timestamp)

\* get_current_stats: total and matched (the rate is display only).
get_current_stats(store) ==
  [total |-> Cardinality(DOMAIN store),
   matched |-> Cardinality({k \in DOMAIN store : CountedMatched(store[k])})]

\* Faulty variant: the filter without its is_none() half.
count_geyser_only_any(store, geyser_name) ==
  Cardinality({k \in DOMAIN store : geyser_name \in DOMAIN store[k].geyser_timestamps})

\* count_geyser_only
count_geyser_only(store, geyser_name) ==
  Cardinality({k \in DOMAIN store :
     /\ geyser_name \in DOMAIN store[k].geyser_timestamps
     /\ IsNone(store[k].shredlink_timestamp)})

\* Faulty variant: the filter without its is_empty() half.
count_shredlink_only_any(store) ==
  Cardinality({k \in DOMAIN store : IsSome(store[k].shredlink_timestamp)})

\* count_shredlink_only
count_shredlink_only(store) ==
  Cardinality({k \in DOMAIN store :
     /\ IsSome(store[k].shredlink_timestamp)
     /\ DOMAIN store[k].geyser_timestamps = {}})

\* A set of keys in a fixed order (the iteration order of the map is
\* unspecified; the statistics sort what they are given).
RECURSIVE SeqOfSet(_)
SeqOfSet(S) ==
  IF S = {} THEN <<>>
  ELSE LET x == CHOOSE y \in S : TRUE IN <<x>> \o SeqOfSet(S \ {x})

\* The filter_map of generate_report: the diffs of geyser_name over the store.
MatchedKeys(store, geyser_name) ==
  {k \in DOMAIN store : geyser_name \in DOMAIN latency_diffs_ms(store[k])}
CollectLatencies(store, geyser_name) ==
  LET ks == SeqOfSet(MatchedKeys(store, geyser_name))
  IN [i \in 1..Len(ks) |-> latency_diffs_ms(store[ks[i]])[geyser_name]]

\* print_table_report's winner of a Geyser with matched transactions.
Winner(average_latency_ms) ==
  IF average_latency_ms[1] > 0 THEN "Shredlink" ELSE "Geyser"

\* One GeyserStats entry of the report.
GeyserStatsOf(latencies, geyser_only) ==
  LET stats == calculate(latencies)
  IN [matched_transactions |-> Len(latencies),
      geyser_only_count |-> geyser_only,
      average_latency_ms |-> stats.average,
      median_latency_ms |-> stats.median,
      p95_latency_ms |-> stats.p95,
      p99_latency_ms |-> stats.p99,
      min_latency_ms |-> stats.min,
      max_latency_ms |-> stats.max,
      shredlink_wins_percentage |-> stats.shredlink_wins_percentage]

\* ------------------------------------------------------------------- state

VARIABLES
  scenario,      \* the network's behaviour in this run, one of Scenarios
  runResult,     \* Option of what run() returned
  ctl,           \* the controller: "Idle", "Running" (inside select!), "Finalizing"
                 \* (run returned Ok, the report is being generated), "Done"
                 \* (report produced), "Exited" (main returned, runtime dropped)
  now,           \* the wall clock, seconds since start_time
  duration,      \* the duration run() was called with, seconds
  timer,         \* run_with_progress: [pc, wake] with pc "new", "sleep" (until
                 \* wake), "done" (returned) or "dropped" (select! completed
                 \* by the clients)
  client,        \* per source, its client future: "new", "connecting",
                 \* "streaming", "ok" (start returned Ok), "err" (start returned
                 \* Err), "dropped" (dropped when select! completed)
  emitted,       \* the events the clients have sent so far, all sources together
  chan,          \* per source, the unbounded channel's buffered messages
  hpc,           \* per source, its handler task: "unspawned", "recv" (awaiting
                 \* rx.recv()), "upsert" (holding a message), "done"
  pending,       \* per source, the message its handler holds: Option of
                 \* [signature, timestamp]
  transactions,  \* the DashMap: signature -> TransactionTimestamp
  liveStats,     \* the CurrentStats the ticker last displayed
  rep,           \* generate_report's progress and, at the end, the report; its
                 \* field quiet is history: the store was quiescent at every
                 \* pass taken so far
  firstUpsert,   \* history: <<signature, source>> -> timestamp of the first
                 \* upsert applied for that slot
  dupUpserts,    \* history: the slots to which a later upsert with another
                 \* timestamp was applied
  notified,      \* the "latency observed" lines printed so far, as a bag
  shardLock,     \* LockSpec: per shard of the DashMap, its RwLock: "free", "read"
                 \* (read-locked by the ticker) or the source whose handler
                 \* holds the write lock
  tick,          \* LockSpec: get_current_stats in progress: [pc, shard, held,
                 \* total, matched]
  entries,       \* StatsSpec: the matched records the statistics are taken of
  latencies,     \* StatsSpec: Option of the diffs collected from entries
  stats          \* StatsSpec: Option of LatencyStats::calculate's result

vars == <<scenario, runResult, ctl, now, duration, timer, client, emitted, chan, hpc, pending,
          transactions, liveStats, rep, firstUpsert, dupUpserts, notified, entries,
          latencies, stats, shardLock, tick>>

statsVars == <<scenario, entries, latencies, stats>>
histVars == <<firstUpsert, dupUpserts, notified>>
lockVars == <<shardLock, tick>>

\* The shards of the DashMap (its keys are spread over them by their hash).
Shards == 0..(NumShards - 1)
IdleTick == [pc |-> "idle", shard |-> 0, held |-> FALSE, total |-> 0, matched |-> 0]

\* Benchmark::new followed by nothing else: the state before run().
IdleRep == [pc |-> "idle", todo |-> Geysers, cur |-> None, latencies |-> <<>>,
            geyser_results |-> <<>>, total_transactions |-> 0,
            shredlink_only_count |-> 0, quiet |-> TRUE]

IdleState ==
  /\ runResult = None
  /\ ctl = "Idle"
  /\ now = 0
  /\ duration = 0
  /\ timer = [pc |-> "new", wake |-> 0]
  /\ client = [s \in Sources |-> "new"]
  /\ emitted = 0
  /\ chan = [s \in Sources |-> <<>>]
  /\ hpc = [s \in Sources |-> "unspawned"]
  /\ pending = [s \in Sources |-> None]
  /\ transactions = <<>>
  /\ liveStats = [total |-> 0, matched |-> 0]
  /\ rep = IdleRep
  /\ firstUpsert = <<>>
  /\ dupUpserts = {}
  /\ notified = <<>>
  /\ shardLock = [i \in Shards |-> "free"]
  /\ tick = IdleTick

Init ==
  /\ scenario \in Scenarios
  /\ IdleState
  /\ entries = <<>>
  /\ latencies = None
  /\ stats = None

\* ---------------------------------------------------------- the controller

ClientEnded(c) == c \in {"ok", "err"}

\* join_all(client_futures) is ready: every client future has completed.
AllClientsEnded(cl) == \A s \in Sources : ClientEnded(cl[s])

\* Faulty variants: a join of the two branches (a sequential wait), a race of
\* the timer against each single client (select_all in place of join_all), and
\* an await of join_all alone.
SelectReadyBoth(cl, timerDone) == AllClientsEnded(cl) /\ timerDone
SelectReadyAnyClient(cl, timerDone) == (\E s \in Sources : ClientEnded(cl[s])) \/ timerDone
SelectReadyClientsOnly(cl, timerDone) == AllClientsEnded(cl)

\* tokio::select! over join_all(client_futures) and run_with_progress: ready as
\* soon as either branch is.
SelectReady(cl, timerDone) == AllClientsEnded(cl) \/ timerDone

\* Faulty variant: client.start(tx).await? handed on to run's caller.
RunOutcomePropagated(cl) == IF \E s \in Sources : cl[s] = "err" THEN "Err" ELSE "Ok"

\* What run() returns once select! completes: Ok(()), whatever the clients'
\* own results were (each client future prints its error and yields ()).
RunOutcome(cl) == "Ok"

\* Leaving select!: join_all and the client futures it owns are dropped,
\* the completed ones with their outputs and the others cancelled.
DropClients(cl) == [s \in Sources |-> "dropped"]

\* Faulty variant: the deadline compared with the time after the coming sleep.
TimerContinuesAfterTick(clock, d) == clock + TickSecs < d

\* The loop condition of run_with_progress: start.elapsed() < duration.
TimerContinues(clock, d) == clock < d

\* A live Sender of a source's channel exists.  A Geyser's original sender
\* stays in geyser_channels until run returns (its client holds a clone); the
\* Shredlink sender is moved into its client future and dies with it.
SenderAlive(s) ==
  IF s \in Geysers
    THEN ctl = "Running"
    ELSE ctl = "Running" /\ ~ClientEnded(client[s])

\* The outcome of one poll of select! in run(), given the client futures'
\* states `cl`, the timer `tm`, and run's locals: either a branch is ready
\* and run returns Ok(()) (its locals, the progress bar and both branch
\* futures are dropped), or run stays suspended in select!.
ZeroStatsLive == [total |-> 0, matched |-> 0]
PollSelect(cl, tm, d, live) ==
  IF SelectReady(cl, tm.pc = "done")
    THEN /\ ctl' = "Finalizing"
         /\ runResult' = Some(RunOutcome(cl))
         /\ client' = DropClients(cl)
         /\ timer' = [pc |-> IF tm.pc = "done" THEN "done" ELSE "dropped", wake |-> 0]
         /\ duration' = 0
         /\ liveStats' = ZeroStatsLive
         /\ emitted' = 0
    ELSE /\ ctl' = "Running"
         /\ runResult' = runResult
         /\ client' = cl
         /\ timer' = tm
         /\ duration' = d
         /\ liveStats' = live
         /\ emitted' = emitted

\* One check of run_with_progress's loop condition at time `clock`.
TimerCheck(clock, d) ==
  IF TimerContinues(clock, d)
    THEN [pc |-> "sleep", wake |-> clock + TickSecs]
    ELSE [pc |-> "done", wake |-> 0]

\* run(duration), up to the first poll of select!: the handlers are spawned,
\* every client starts to connect, the timer checks its deadline once.
Run(d) ==
  /\ ctl = "Idle"
  /\ hpc' = [s \in Sources |-> "recv"]
  /\ PollSelect([s \in Sources |-> "connecting"], TimerCheck(now, d), d, liveStats)
  /\ UNCHANGED <<now, chan, pending, transactions, rep, histVars, statsVars, lockVars>>

\* The wall clock advances (measured from start_time, so not before run()).
Tick ==
  /\ ctl \in {"Running", "Finalizing", "Done"}
  /\ now < MaxTime
  /\ now' = now + 1
  /\ UNCHANGED <<runResult, ctl, duration, timer, client, emitted, chan, hpc, pending,
                 transactions, liveStats, rep, histVars, statsVars, lockVars>>

\* One turn of run_with_progress's loop after its sleep: the ticker reads the
\* store, then the loop condition is checked again.
TimerWake ==
  /\ ctl = "Running"
  /\ timer.pc = "sleep"
  /\ now >= timer.wake
  /\ PollSelect(client, TimerCheck(now, duration), duration,
                get_current_stats(transactions))
  /\ transactions' = StoreAfterRead(transactions)
  /\ UNCHANGED <<now, chan, hpc, pending, rep, histVars, statsVars, lockVars>>

\* A client future completes with `outcome`; select! is polled again.
ClientFinish(s, outcome) ==
  PollSelect([client EXCEPT ![s] = outcome], timer, duration, liveStats)

\* create_client / connect and the subscription succeed.
ClientConnect(s) ==
  /\ ctl = "Running"
  /\ client[s] = "connecting"
  /\ client' = [client EXCEPT ![s] = "streaming"]
  /\ UNCHANGED <<runResult, ctl, now, duration, timer, emitted, chan, hpc, pending,
                 transactions, liveStats, rep, histVars, statsVars, lockVars>>

\* The connection or the subscription fails: start returns Err, run prints it.
ClientConnectFail(s) ==
  /\ ctl = "Running"
  /\ client[s] = "connecting"
  /\ ClientFinish(s, "err")
  /\ UNCHANGED <<now, chan, hpc, pending, transactions, rep, histVars, statsVars, lockVars>>

\* The stream yields an error: the Geyser client breaks out of its loop and
\* returns Ok, the Shredlink client returns the error.
ClientStreamError(s) ==
  /\ ctl = "Running"
  /\ client[s] = "streaming"
  /\ ClientFinish(s, IF s = Shredlink THEN "err" ELSE "ok")
  /\ UNCHANGED <<now, chan, hpc, pending, transactions, rep, histVars, statsVars, lockVars>>

\* The stream is exhausted: start returns Ok.
ClientStreamEnd(s) ==
  /\ ctl = "Running"
  /\ client[s] = "streaming"
  /\ ClientFinish(s, "ok")
  /\ UNCHANGED <<now, chan, hpc, pending, transactions, rep, histVars, statsVars, lockVars>>

\* The messages a source's client puts on its channel: a GeyserTransaction
\* carries the encoded signature, a ShredlinkTransaction the raw signatures.
GeyserMessage(raw) == Bs58Encode(raw)
ShredlinkMessages == {<<>>} \cup { <<raw>> : raw \in RawSigs }

\* The Geyser client receives a transaction update and sends it on.
GeyserEmit(g, raw) ==
  /\ ctl = "Running"
  /\ client[g] = "streaming"
  /\ raw \in scenario.sigs
  /\ emitted < scenario.events
  /\ emitted' = emitted + 1
  /\ chan' = [chan EXCEPT ![g] = Append(@, GeyserMessage(raw))]
  /\ UNCHANGED <<runResult, ctl, now, duration, timer, client, hpc, pending, transactions,
                 liveStats, rep, histVars, statsVars, lockVars>>

\* The Shredlink client receives a transaction and sends it on.
ShredlinkEmit(signatures) ==
  /\ ctl = "Running"
  /\ client[Shredlink] = "streaming"
  /\ \A i \in 1..Len(signatures) : signatures[i] \in scenario.sigs
  /\ emitted < scenario.events
  /\ emitted' = emitted + 1
  /\ chan' = [chan EXCEPT ![Shredlink] = Append(@, signatures)]
  /\ UNCHANGED <<runResult, ctl, now, duration, timer, client, hpc, pending, transactions,
                 liveStats, rep, histVars, statsVars, lockVars>>

\* ------------------------------------------------------- the handler tasks

\* Faulty variant: signatures.first().unwrap_or_default(), an empty list read
\* as the empty signature.
SignatureOfOrDefault(s, msg) ==
  IF s \in Geysers THEN Some(msg)
  ELSE IF msg = <<>> THEN Some(Bs58Encode(<<>>))
  ELSE Some(Bs58Encode(msg[1]))

\* The event id a handler derives from a message: the Geyser handler takes
\* transaction.signature, the Shredlink handler encodes signatures.first()
\* (None for an empty list).
SignatureOf(s, msg) ==
  IF s \in Geysers THEN Some(msg)
  ELSE IF msg = <<>> THEN None
  ELSE Some(Bs58Encode(msg[1]))

\* rx.recv() returns a message: the handler takes the arrival timestamp and
\* the signature; a Shredlink message without signature is skipped.
HandlerRecv(s) ==
  /\ ctl # "Exited"
  /\ hpc[s] = "recv"
  /\ chan[s] # <<>>
  /\ chan' = [chan EXCEPT ![s] = Tail(@)]
  /\ LET timestamp == get_timestamp_ms(now)
         signature == SignatureOf(s, Head(chan[s]))
     IN IF IsSome(signature)
          THEN /\ pending' = [pending EXCEPT ![s] =
                    Some([signature |-> Unwrap(signature), timestamp |-> timestamp])]
               /\ hpc' = [hpc EXCEPT ![s] = "upsert"]
          ELSE UNCHANGED <<pending, hpc>>
  /\ UNCHANGED <<runResult, ctl, now, duration, timer, client, emitted, transactions,
                 liveStats, rep, histVars, statsVars, lockVars>>

\* rx.recv() returns None (channel empty, every sender dropped): the task ends.
HandlerExit(s) ==
  /\ ctl # "Exited"
  /\ hpc[s] = "recv"
  /\ chan[s] = <<>>
  /\ ~SenderAlive(s)
  /\ hpc' = [hpc EXCEPT ![s] = "done"]
  /\ UNCHANGED <<runResult, ctl, now, duration, timer, client, emitted, chan, pending,
                 transactions, liveStats, rep, histVars, statsVars, lockVars>>

\* The effect of the upsert a handler holds: the store, the printed lines and
\* the history of applied upserts.
ApplyUpsert(s) ==
  /\ LET p == Unwrap(pending[s])
         slot == <<p.signature, s>>
     IN /\ transactions' = Upsert(transactions, s, p.signature, p.timestamp)
        /\ firstUpsert' = IF slot \in DOMAIN firstUpsert THEN firstUpsert
                          ELSE firstUpsert @@ (slot :> p.timestamp)
        /\ dupUpserts' = IF slot \in DOMAIN firstUpsert /\ firstUpsert[slot] # p.timestamp
                           THEN dupUpserts \cup {slot} ELSE dupUpserts
        /\ notified' = Printed(notified,
                               Notifications(transactions, s, p.signature, p.timestamp))

\* The handler applies its upsert and goes back to rx.recv().
HandlerUpsert(s) ==
  /\ ctl # "Exited"
  /\ hpc[s] = "upsert"
  /\ ApplyUpsert(s)
  /\ pending' = [pending EXCEPT ![s] = None]
  /\ hpc' = [hpc EXCEPT ![s] = "recv"]
  /\ UNCHANGED <<runResult, ctl, now, duration, timer, client, emitted, chan, liveStats,
                 rep, statsVars, lockVars>>

\* ------------------------------------------------------------- the report

\* No upsert is in progress or still to come: run() has returned (no client
\* sends any more), every channel is drained and no handler holds an event.
Quiescent ==
  /\ ctl \in {"Finalizing", "Done", "Exited"}
  /\ \A s \in Sources : chan[s] = <<>> /\ pending[s] = None

\* Faulty variant: a report taken through a shared handle while run() is
\* still suspended in select!.
ReportCallableAnyTime(c) == c \in {"Running", "Finalizing"}

\* When main calls generate_report (through print_report): after
\* benchmark.run(..).await has returned; run borrows the Benchmark mutably
\* until then.
ReportCallable(c) == c = "Finalizing"

\* generate_report, first pass of one loop turn: the latencies of a Geyser.
ReportLatencies(g) ==
  /\ ReportCallable(ctl)
  /\ rep.pc \in {"idle", "loop"}
  /\ g \in rep.todo
  /\ rep' = [rep EXCEPT !.pc = "only", !.cur = Some(g),
                        !.latencies = CollectLatencies(transactions, g),
                        !.quiet = @ /\ Quiescent]
  /\ transactions' = StoreAfterRead(transactions)
  /\ UNCHANGED <<runResult, ctl, now, duration, timer, client, emitted, chan, hpc, pending,
                 liveStats, histVars, statsVars, lockVars>>

\* Second pass of the loop turn: count_geyser_only, calculate, insert.
ReportGeyserOnly ==
  /\ ReportCallable(ctl)
  /\ rep.pc = "only"
  /\ LET g == Unwrap(rep.cur)
     IN rep' = [rep EXCEPT
                  !.pc = "loop", !.cur = None, !.latencies = <<>>,
                  !.todo = @ \ {g}, !.quiet = @ /\ Quiescent,
                  !.geyser_results = @ @@
                     (g :> GeyserStatsOf(rep.latencies, count_geyser_only(transactions, g)))]
  /\ transactions' = StoreAfterRead(transactions)
  /\ UNCHANGED <<runResult, ctl, now, duration, timer, client, emitted, chan, hpc, pending,
                 liveStats, histVars, statsVars, lockVars>>

\* total_transactions: self.transactions.len().
ReportTotal ==
  /\ ReportCallable(ctl)
  /\ rep.pc \in {"idle", "loop"}
  /\ rep.todo = {}
  /\ rep' = [rep EXCEPT !.pc = "shred", !.quiet = @ /\ Quiescent,
                        !.total_transactions = Cardinality(DOMAIN transactions)]
  /\ transactions' = StoreAfterRead(transactions)
  /\ UNCHANGED <<runResult, ctl, now, duration, timer, client, emitted, chan, hpc, pending,
                 liveStats, histVars, statsVars, lockVars>>

\* shredlink_only_count: the report is complete.
ReportShredlinkOnly ==
  /\ ReportCallable(ctl)
  /\ rep.pc = "shred"
  /\ rep' = [rep EXCEPT !.pc = "done", !.quiet = @ /\ Quiescent,
                        !.shredlink_only_count = count_shredlink_only(transactions)]
  /\ ctl' = "Done"
  /\ transactions' = StoreAfterRead(transactions)
  /\ UNCHANGED <<runResult, now, duration, timer, client, emitted, chan, hpc, pending,
                 liveStats, histVars, statsVars, lockVars>>

\* main returns after printing: the runtime is dropped and with it every task.
Exit ==
  /\ ctl = "Done"
  /\ ctl' = "Exited"
  /\ UNCHANGED <<runResult, now, duration, timer, client, emitted, chan, hpc, pending,
                 transactions, liveStats, rep, histVars, statsVars, lockVars>>

\* ------------------------------------------------------- the specification

Next ==
  \/ \E d \in 0..MaxDuration : Run(d)
  \/ Tick
  \/ TimerWake
  \/ \E s \in Sources : ClientConnect(s)
  \/ \E s \in Sources : ClientConnectFail(s)
  \/ \E s \in Sources : ClientStreamError(s)
  \/ \E s \in Sources : ClientStreamEnd(s)
  \/ \E g \in Geysers, raw \in RawSigs : GeyserEmit(g, raw)
  \/ \E signatures \in ShredlinkMessages : ShredlinkEmit(signatures)
  \/ \E s \in Sources : HandlerRecv(s)
  \/ \E s \in Sources : HandlerExit(s)
  \/ \E s \in Sources : HandlerUpsert(s)
  \/ \E g \in Geysers : ReportLatencies(g)
  \/ ReportGeyserOnly
  \/ ReportTotal
  \/ ReportShredlinkOnly
  \/ Exit

Spec == Init /\ [][Next]_vars

\* The run under the scheduling the runtime provides: the clock advances, the
\* timer's sleep wakes the task that runs run(), and main, once run() has
\* returned, runs generate_report to its end.  Nothing is assumed of the
\* sources: a client may stay connecting or streaming for ever.
LiveScenario == [sigs |-> {RawSig(1)}, events |-> MaxEventsAllSigs]

InitLive ==
  /\ scenario = LiveScenario
  /\ IdleState
  /\ entries = <<>>
  /\ latencies = None
  /\ stats = None

ReportStep ==
  \/ \E g \in Geysers : ReportLatencies(g)
  \/ ReportGeyserOnly
  \/ ReportTotal
  \/ ReportShredlinkOnly

LiveSpec ==
  /\ InitLive
  /\ [][Next]_vars
  /\ WF_vars(\E d \in 0..MaxDuration : Run(d))
  /\ WF_vars(Tick)
  /\ WF_vars(TimerWake)
  /\ WF_vars(ReportStep)

\* ------------------------------------------- the statistics as a function

\* The arrival times the records of StatsSpec are drawn from.
TimeVals == {1000, 1050} \cup { 1050 + 10 * i : i \in 1..MaxDiff }

\* The comparison source whose statistics StatsSpec computes.
StatsGeyser == "Geyser-a"

MatchedEntry(ref, cmp) ==
  [geyser_timestamps |-> (StatsGeyser :> cmp), shredlink_timestamp |-> Some(ref)]

\* The records a store can hold for one event: matched, comparison-only,
\* reference-only.
StatsEntries ==
  { MatchedEntry(ref, cmp) : ref \in TimeVals, cmp \in TimeVals }
  \cup { GeyserOrInsert(StatsGeyser, 1000), ShredlinkOrInsert(1000) }

\* Lengths at which the 95th and 99th rank leave the last element.
RampLens == {20, 21, 100, 101}
Ramp(n) == [i \in 1..n |-> MatchedEntry(1000, 1000 + i)]

RECURSIVE SeqsUpTo(_, _)
SeqsUpTo(S, n) ==
  IF n = 0 THEN {<<>>}
  ELSE LET shorter == SeqsUpTo(S, n - 1)
       IN shorter \cup { Append(q, x) : q \in {r \in shorter : Len(r) = n - 1}, x \in S }

StatsInputs == SeqsUpTo(StatsEntries, MaxLen) \cup { Ramp(n) : n \in RampLens }

InitStats ==
  /\ scenario = LiveScenario
  /\ IdleState
  /\ entries \in StatsInputs
  /\ latencies = None
  /\ stats = None

runVars == <<runResult, ctl, now, duration, timer, client, emitted, chan, hpc,
             pending, transactions, liveStats, rep, histVars, lockVars>>

\* The filter_map of generate_report over the records.
CollectDiffs ==
  /\ latencies = None
  /\ latencies' = Some(CollectLatencies(entries, StatsGeyser))
  /\ UNCHANGED <<runVars, scenario, entries, stats>>

\* LatencyStats::calculate(&latencies)
Calculate ==
  /\ IsSome(latencies)
  /\ stats = None
  /\ stats' = Some(calculate(Unwrap(latencies)))
  /\ UNCHANGED <<runVars, scenario, entries, latencies>>

NextStats == CollectDiffs \/ Calculate

StatsSpec == InitStats /\ [][NextStats]_vars

\* ------------------------------------------- the store's locks (LockSpec)

\* The run with the map's locking made explicit.  The DashMap is a fixed
\* array of shards, each a RwLock over a HashMap; a key lives in the shard
\* its hash selects.  entry(key) takes the write lock of the key's shard
\* and holds it until the statement ends; len() read-locks one shard after
\* the other, iter() holds the read lock of the shard it is iterating and
\* releases it before it takes the next.  Neither get_current_stats nor the
\* handlers' upsert statement contains an await.

\* The shard of a key (any fixed function of the key serves as the hash).
ShardOf(signature) == Len(signature) % NumShards
KeysOfShard(store, i) == {e \in DOMAIN store : ShardOf(e) = i}

\* Faulty variant: the guards of the visited shards kept (collected with the
\* entries) instead of dropped when the iterator moves on.
ShardKept(locks, i) == locks

\* The locks once the reader leaves shard i: its read guard is dropped.
ShardReleased(locks, i) == [locks EXCEPT ![i] = "free"]

LockScenario == [sigs |-> RawSigs, events |-> MaxEventsAllSigs]

InitLock ==
  /\ scenario = LockScenario
  /\ IdleState
  /\ entries = <<>>
  /\ latencies = None
  /\ stats = None

\* transactions.entry(signature): the handler takes the write lock of the
\* key's shard (it waits while the shard is locked).
EntryLock(s) ==
  /\ ctl # "Exited"
  /\ hpc[s] = "upsert"
  /\ LET i == ShardOf(Unwrap(pending[s]).signature)
     IN /\ shardLock[i] = "free"
        /\ shardLock' = [shardLock EXCEPT ![i] = s]
  /\ hpc' = [hpc EXCEPT ![s] = "entry"]
  /\ UNCHANGED <<runResult, ctl, now, duration, timer, client, emitted, chan, pending,
                 transactions, liveStats, rep, histVars, statsVars, tick>>

\* .and_modify(..).or_insert_with(..) under the lock; the guard is dropped at
\* the end of the statement and the handler goes back to rx.recv().
EntryApply(s) ==
  /\ ctl # "Exited"
  /\ hpc[s] = "entry"
  /\ ApplyUpsert(s)
  /\ shardLock' = [shardLock EXCEPT ![ShardOf(Unwrap(pending[s]).signature)] = "free"]
  /\ pending' = [pending EXCEPT ![s] = None]
  /\ hpc' = [hpc EXCEPT ![s] = "recv"]
  /\ UNCHANGED <<runResult, ctl, now, duration, timer, client, emitted, chan, liveStats,
                 rep, statsVars, tick>>

\* The sleep of run_with_progress ends and get_current_stats begins with
\* self.transactions.len().
StatsBegin ==
  /\ ctl = "Running"
  /\ timer.pc = "sleep"
  /\ now >= timer.wake
  /\ tick.pc = "idle"
  /\ tick' = [IdleTick EXCEPT !.pc = "len"]
  /\ UNCHANGED <<runResult, ctl, now, duration, timer, client, emitted, chan, hpc, pending,
                 transactions, liveStats, rep, histVars, statsVars, shardLock>>

\* len() or iter() takes the read lock of its next shard (it waits while a
\* handler holds the shard's write lock).
StatsLock ==
  /\ tick.pc \in {"len", "iter"}
  /\ ~tick.held
  /\ shardLock[tick.shard] \in {"free", "read"}
  /\ shardLock' = [shardLock EXCEPT ![tick.shard] = "read"]
  /\ tick' = [tick EXCEPT !.held = TRUE]
  /\ UNCHANGED <<runResult, ctl, now, duration, timer, client, emitted, chan, hpc, pending,
                 transactions, liveStats, rep, histVars, statsVars>>

\* The shard is read (its length in len(), its matched records in the
\* filter of iter()) and left.
StatsUnlock ==
  /\ tick.held
  /\ LET i == tick.shard
         keys == KeysOfShard(transactions, i)
         last == i = NumShards - 1
     IN /\ tick' = [pc |-> IF ~last THEN tick.pc
                           ELSE IF tick.pc = "len" THEN "iter" ELSE "ret",
                    shard |-> IF last THEN 0 ELSE i + 1,
                    held |-> FALSE,
                    total |-> IF tick.pc = "len"
                                THEN tick.total + Cardinality(keys) ELSE tick.total,
                    matched |-> IF tick.pc = "iter"
                                  THEN tick.matched
                                       + Cardinality({e \in keys : CountedMatched(transactions[e])})
                                  ELSE tick.matched]
        /\ shardLock' = ShardReleased(shardLock, i)
  /\ UNCHANGED <<runResult, ctl, now, duration, timer, client, emitted, chan, hpc, pending,
                 transactions, liveStats, rep, histVars, statsVars>>

\* get_current_stats returns, the message is set and the loop condition of
\* run_with_progress is checked again.
StatsReturn ==
  /\ ctl = "Running"
  /\ tick.pc = "ret"
  /\ PollSelect(client, TimerCheck(now, duration), duration,
                [total |-> tick.total, matched |-> tick.matched])
  /\ tick' = IdleTick
  /\ UNCHANGED <<now, chan, hpc, pending, transactions, rep, histVars, statsVars, shardLock>>

NextLock ==
  \/ \E d \in 0..MaxDuration : Run(d)
  \/ Tick
  \/ \E s \in Sources : ClientConnect(s)
  \/ \E g \in Geysers, raw \in RawSigs : GeyserEmit(g, raw)
  \/ \E signatures \in ShredlinkMessages : ShredlinkEmit(signatures)
  \/ \E s \in Sources : HandlerRecv(s)
  \/ \E s \in Sources : EntryLock(s)
  \/ \E s \in Sources : EntryApply(s)
  \/ StatsBegin
  \/ StatsLock
  \/ StatsUnlock
  \/ StatsReturn

\* Threads run: the task of run() goes on through get_current_stats once it
\* has begun it, and a handler that holds a message goes on through its
\* upsert statement.  Nothing is assumed of the clock or the sources.
LockSpec ==
  /\ InitLock
  /\ [][NextLock]_vars
  /\ WF_vars(StatsLock)
  /\ WF_vars(StatsUnlock)
  /\ WF_vars(StatsReturn)
  /\ \A s \in Sources : WF_vars(EntryLock(s)) /\ WF_vars(EntryApply(s))

\* ================================================================ claims

\* The event ids the sources can report.
EventIds == { Bs58Encode(raw) : raw \in RawSigs }

HasSlot(store, e, s) == IsSome(Slot(store, e, s))

\* C1  First write wins: for every source (Shredlink or a Geyser) and every
\* event id, the timestamp the store holds for that slot is the timestamp of
\* the first upsert applied to it, whatever upserts followed.
C1_FirstWriteWins ==
  \A slot \in DOMAIN firstUpsert :
    Slot(transactions, slot[1], slot[2]) = Some(firstUpsert[slot])

\* C1 witness: a second upsert with another timestamp has been applied to a
\* slot.
C1_Witness ==
  \E slot \in dupUpserts : Some(firstUpsert[slot]) = Slot(transactions, slot[1], slot[2])

\* C2  No lost update: in every interleaving of the handler tasks, every slot
\* a handler has upserted is present: a record upserted by two sources holds
\* both timestamps, and every upserted event id has its record.
C2_NoLostUpdate ==
  \A slot \in DOMAIN firstUpsert :
    /\ slot[1] \in DOMAIN transactions
    /\ HasSlot(transactions, slot[1], slot[2])

\* C2 witness: one record upserted by the Shredlink handler and by a Geyser
\* handler while a third handler is in the middle of its own upsert.
C2_Witness ==
  \E e \in DOMAIN transactions, g \in Geysers :
    /\ <<e, Shredlink>> \in DOMAIN firstUpsert
    /\ <<e, g>> \in DOMAIN firstUpsert
    /\ \E h \in Geysers \ {g} : hpc[h] = "upsert"

\* The timestamps a handler could take now or at the next tick.
NearTimestamps == { get_timestamp_ms(now), get_timestamp_ms(now + 1) }

\* C3  Matching is symmetric: the ticker counts a record as matched exactly
\* when it holds the Shredlink timestamp and at least one Geyser timestamp,
\* and upserting an event from Shredlink and from a Geyser gives the same
\* record, counted as matched, in either order.
C3_MatchingSymmetric ==
  /\ \A e \in DOMAIN transactions :
       CountedMatched(transactions[e]) <=>
         /\ HasSlot(transactions, e, Shredlink)
         /\ \E g \in Geysers : HasSlot(transactions, e, g)
  /\ get_current_stats(transactions).matched =
       Cardinality({e \in DOMAIN transactions :
                      /\ HasSlot(transactions, e, Shredlink)
                      /\ \E g \in Geysers : HasSlot(transactions, e, g)})
  /\ \A e \in EventIds, g \in Geysers, tg \in NearTimestamps, ts \in NearTimestamps :
       LET geyserFirst == UpsertShredlink(UpsertGeyser(transactions, g, e, tg), e, ts)
           shredlinkFirst == UpsertGeyser(UpsertShredlink(transactions, e, ts), g, e, tg)
       IN /\ geyserFirst = shredlinkFirst
          /\ CountedMatched(geyserFirst[e])

\* C3 witness: the ticker has displayed a matched record, whose Geyser
\* timestamp is the earlier one (the Geyser upsert came first).
C3_Witness ==
  /\ ctl = "Running"
  /\ liveStats.matched >= 1
  /\ \E e \in DOMAIN transactions, g \in Geysers :
       /\ HasSlot(transactions, e, g)
       /\ HasSlot(transactions, e, Shredlink)
       /\ transactions[e].geyser_timestamps[g] < Unwrap(transactions[e].shredlink_timestamp)

\* C4  Running -> Finalizing is a race: run() is inside select! only while some
\* client is still running and the timer has not returned; it leaves as soon
\* as either all clients have ended or the timer has.
C4_SelectIsRace ==
  /\ ctl = "Running" => (~AllClientsEnded(client) /\ timer.pc = "sleep")
  /\ ctl \in {"Finalizing", "Done", "Exited"} => timer.pc \in {"done", "dropped"}

\* C4 witness: run() has returned because every client ended, before the
\* timer expired.
C4_Witness ==
  /\ ctl = "Finalizing"
  /\ timer.pc = "dropped"
  /\ now < MaxDuration

\* A GeyserStats entry with no matched event and every statistic zero.
IsZeroEntry(gs) ==
  /\ gs.matched_transactions = 0
  /\ gs.average_latency_ms = <<0, 1>>
  /\ gs.median_latency_ms = <<0, 1>>
  /\ gs.p95_latency_ms = <<0, 1>>
  /\ gs.p99_latency_ms = <<0, 1>>
  /\ gs.min_latency_ms = 0
  /\ gs.max_latency_ms = 0
  /\ gs.shredlink_wins_percentage = <<0, 1>>

\* C5  The run always completes and yields a report: whatever the sources do
\* (a client may stay connecting for ever), run() returns Ok and the report is
\* produced; it has an entry for every configured Geyser, and a Geyser none of
\* whose events is matched has matched count 0 and all statistics zero.
C5_RunCompletesWithReport ==
  /\ <>(rep.pc = "done")
  /\ [](ctl \in {"Finalizing", "Done", "Exited"} => runResult = Some("Ok"))
  /\ [](rep.pc = "done" =>
         /\ DOMAIN rep.geyser_results = Geysers
         /\ \A g \in Geysers :
              /\ (\A e \in DOMAIN transactions : ~HasSlot(transactions, e, g))
                   => rep.geyser_results[g].matched_transactions = 0
              /\ rep.geyser_results[g].matched_transactions = 0
                   => IsZeroEntry(rep.geyser_results[g]))

\* C5 witness: a finished report in which one Geyser has a matched event and
\* another, which never delivered anything, has the zero entry.
C5_Witness ==
  /\ rep.pc = "done"
  /\ \E g \in Geysers, h \in Geysers :
       /\ rep.geyser_results[g].matched_transactions >= 1
       /\ \A e \in DOMAIN transactions : ~HasSlot(transactions, e, h)
       /\ IsZeroEntry(rep.geyser_results[h])

\* The clients whose future has not completed.
LiveClients(cl) == {s \in Sources : ~ClientEnded(cl[s])}

\* C6  One source's failure is not fatal: run() never returns an error; a step
\* in which one client ends with an error while another client is still
\* running leaves run() in select! and every other client, channel, handler
\* and record as it was; and run() leaves select! only because the timer
\* returned or because the last running client ended.
C6_SourceFailureNotFatal ==
  /\ [](runResult # Some("Err"))
  /\ [][\A s \in Sources :
          (ctl = "Running" /\ client[s] # "err" /\ client'[s] = "err")
            => /\ ctl' = "Running"
               /\ runResult' = None
               /\ \A o \in Sources \ {s} : client'[o] = client[o]
               /\ <<chan, hpc, pending, transactions>>' = <<chan, hpc, pending, transactions>>]_vars
  /\ [][(ctl = "Running" /\ ctl' # "Running")
          => (timer'.pc = "done" \/ Cardinality(LiveClients(client)) <= 1)]_vars
  /\ [][\A s \in Sources :
          (ctl = "Running" /\ ~ClientEnded(client[s]) /\ Cardinality(LiveClients(client)) >= 2
             /\ timer'.pc # "done" /\ client'[s] # client[s] /\ client'[s] # "streaming")
            => ctl' = "Running"]_vars

\* C6 witness: run() is in select!, one client has failed, and the handler of
\* another, still streaming source holds an event it is about to upsert.
C6_Witness ==
  /\ ctl = "Running"
  /\ \E s \in Sources, o \in Sources :
       /\ client[s] = "err"
       /\ client[o] = "streaming"
       /\ hpc[o] = "upsert"

\* C7  When a source's event sequence ends (its client future has completed,
\* with Ok or Err), the handler task of that source terminates: once it has
\* drained its channel, its rx.recv() returns None.
C7_HandlerEndsWithSource ==
  \A s \in Sources :
    (ctl = "Running" /\ ClientEnded(client[s]) /\ chan[s] = <<>> /\ hpc[s] = "recv")
      => ENABLED HandlerExit(s)

\* C8  Finalization discards all tasks: once run() has left select! and the
\* final report has been taken, no upsert is applied to the store.
C8_NoUpsertAfterFinalReport ==
  [][rep.pc = "done" => transactions' = transactions]_vars

\* The records of StatsSpec's input that hold both the Shredlink timestamp
\* and the timestamp of StatsGeyser.
MatchedIdx ==
  {i \in DOMAIN entries :
     /\ IsSome(entries[i].shredlink_timestamp)
     /\ StatsGeyser \in DOMAIN entries[i].geyser_timestamps}
RefTs(i) == Unwrap(entries[i].shredlink_timestamp)
CmpTs(i) == entries[i].geyser_timestamps[StatsGeyser]

\* How often v occurs in a sequence.
Occurrences(q, v) == Cardinality({i \in DOMAIN q : q[i] = v})

\* C9  Fixed sign convention: the diffs produced for the matched records are
\* comparison timestamp minus reference timestamp, one per matched record;
\* the statistics count as Shredlink wins exactly the records whose reference
\* timestamp is strictly earlier, and the report names Shredlink the winner
\* when every record is such a win and the Geyser when none is and some diff
\* is negative.  Reference at 1000 and comparison at 1050 give +50, a win.
C9_SignConvention ==
  /\ IsSome(latencies) =>
       LET lat == Unwrap(latencies)
       IN /\ Len(lat) = Cardinality(MatchedIdx)
          /\ \A i \in MatchedIdx :
               Occurrences(lat, CmpTs(i) - RefTs(i)) =
                 Cardinality({j \in MatchedIdx : CmpTs(j) - RefTs(j) = CmpTs(i) - RefTs(i)})
          /\ entries = <<MatchedEntry(1000, 1050)>> => lat = <<50>>
  /\ (IsSome(stats) /\ MatchedIdx # {}) =>
       LET st == Unwrap(stats)
           wins == {i \in MatchedIdx : RefTs(i) < CmpTs(i)}
           losses == {i \in MatchedIdx : CmpTs(i) < RefTs(i)}
       IN /\ RatEq(st.shredlink_wins_percentage,
                   <<100 * Cardinality(wins), Cardinality(MatchedIdx)>>)
          /\ wins = MatchedIdx => Winner(st.average) = "Shredlink"
          /\ (wins = {} /\ losses # {}) => Winner(st.average) = "Geyser"
          /\ entries = <<MatchedEntry(1000, 1050)>> =>
               RatEq(st.shredlink_wins_percentage, <<100, 1>>)

\* C9 witness: the statistics of the one record with reference at 1000 and
\* comparison at 1050.
C9_Witness ==
  /\ entries = <<MatchedEntry(1000, 1050)>>
  /\ IsSome(stats)

\* C10  A zero diff is no win but counts in the denominator: for a non-empty
\* list of diffs the win percentage is 100 times the number of strictly
\* positive diffs over the number of all diffs; for the diffs -10, 0, 20 it is
\* 100/3 (one win out of three), with median 0 and average 10/3.
C10_ZeroDiffNotWin ==
  (IsSome(stats) /\ IsSome(latencies) /\ Unwrap(latencies) # <<>>) =>
    LET lat == Unwrap(latencies)
        st == Unwrap(stats)
        positive == {i \in DOMAIN lat : lat[i] > 0}
    IN /\ RatEq(st.shredlink_wins_percentage, <<100 * Cardinality(positive), Len(lat)>>)
       /\ SortAsc(lat) = <<-10, 0, 20>> =>
            /\ RatEq(st.shredlink_wins_percentage, <<100, 3>>)
            /\ RatEq(st.median, <<0, 1>>)
            /\ RatEq(st.average, <<10, 3>>)

\* C10 witness: the statistics of the diffs -10, 0, 20 (in the order 20, -10, 0).
C10_Witness ==
  /\ IsSome(stats)
  /\ latencies = Some(<<20, -10, 0>>)

\* The events of a store that hold the timestamp of g but none of Shredlink,
\* and those that hold both.
ComparisonOnly(store, g) ==
  {e \in DOMAIN store : HasSlot(store, e, g) /\ ~HasSlot(store, e, Shredlink)}
MatchedWith(store, g) ==
  {e \in DOMAIN store : HasSlot(store, e, g) /\ HasSlot(store, e, Shredlink)}

\* C11  Comparison-only events: in the report's pass that collects the diffs
\* of Geyser g, a record holding g's timestamp but no Shredlink timestamp
\* contributes nothing (there is exactly one diff per record that holds both,
\* and it is that record's diff); in the pass that counts g's comparison-only
\* records, every such record is counted and no other; the matched count of
\* the entry is the number of collected diffs.
C11_ComparisonOnlyCounted ==
  [][/\ \A g \in Geysers :
          (rep.pc # "only" /\ rep'.pc = "only" /\ rep'.cur = Some(g))
            => /\ Len(rep'.latencies) = Cardinality(MatchedWith(transactions, g))
               /\ \A i \in 1..Len(rep'.latencies) :
                    \E e \in MatchedWith(transactions, g) :
                      rep'.latencies[i] =
                        Unwrap(Slot(transactions, e, g)) - Unwrap(Slot(transactions, e, Shredlink))
     /\ (rep.pc = "only" /\ rep'.pc # "only")
          => LET g == Unwrap(rep.cur)
             IN /\ rep'.geyser_results[g].geyser_only_count =
                     Cardinality(ComparisonOnly(transactions, g))
                /\ rep'.geyser_results[g].matched_transactions = Len(rep.latencies)]_vars

\* C11 witness: a finished report in which a Geyser has one comparison-only
\* record and no matched one, the store holding that record and a record
\* with a Shredlink timestamp.
C11_Witness ==
  /\ rep.pc = "done"
  /\ \E g \in Geysers :
       /\ Cardinality(ComparisonOnly(transactions, g)) = 1
       /\ rep.geyser_results[g].geyser_only_count = 1
       /\ rep.geyser_results[g].matched_transactions = 0
  /\ \E e \in DOMAIN transactions : HasSlot(transactions, e, Shredlink)

\* The f64 fields of a LatencyStats value.
RatFields == {"average", "median", "p95", "p99", "shredlink_wins_percentage"}

\* C12  Statistics of an empty list: every field is zero (each f64 field is
\* the number 0, not the quotient of a division by zero), the entry built
\* from it has matched count 0, and no computed statistics holds a quotient
\* by zero.
C12_EmptyStatsZero ==
  IsSome(stats) =>
    LET st == Unwrap(stats)
        lat == Unwrap(latencies)
    IN /\ \A f \in RatFields : st[f][2] > 0
       /\ lat = <<>> =>
            /\ \A f \in RatFields : st[f][1] = 0
            /\ st.min = 0
            /\ st.max = 0
            /\ GeyserStatsOf(lat, 0).matched_transactions = 0
            /\ IsZeroEntry(GeyserStatsOf(lat, 0))

\* C12 witness: the statistics of a store whose records yield no diff at all.
C12_Witness ==
  /\ IsSome(stats)
  /\ latencies = Some(<<>>)
  /\ Len(entries) >= 1

\* Lengths up to which the 95th and the 99th rank are the last element.
P95SameAsMax(n) == n <= 20
P99SameAsMax(n) == n <= 100

\* C13  Percentile monotonicity: for every non-empty list of diffs, in any
\* order, min <= median <= max and p95 <= p99 <= max; p95 = p99 = max for a
\* list of at most 20 diffs, and p99 = max for a list of at most 100.
C13_PercentileMonotone ==
  (IsSome(stats) /\ Unwrap(latencies) # <<>>) =>
    LET st == Unwrap(stats)
        n == Len(Unwrap(latencies))
    IN /\ RatLe(<<st.min, 1>>, st.median)
       /\ RatLe(st.median, <<st.max, 1>>)
       /\ RatLe(st.p95, st.p99)
       /\ RatLe(st.p99, <<st.max, 1>>)
       /\ RatLe(<<st.min, 1>>, st.p95)
       /\ P95SameAsMax(n) => (st.p95 = st.p99 /\ st.p99 = <<st.max, 1>>)
       /\ P99SameAsMax(n) => st.p99 = <<st.max, 1>>

\* C13 witness: statistics of an unsorted list of distinct diffs, short
\* enough for both ranks to be the maximum.
C13_Witness ==
  /\ IsSome(stats)
  /\ latencies = Some(<<20, -10, 0>>)
  /\ Unwrap(stats).p95 = <<20, 1>>

\* A second case of C13: a list long enough for the ranks to differ.
C13_WitnessLong ==
  /\ IsSome(stats)
  /\ Len(Unwrap(latencies)) = 101
  /\ ~RatLe(Unwrap(stats).p99, Unwrap(stats).p95)
  /\ ~RatLe(<<Unwrap(stats).max, 1>>, Unwrap(stats).p99)

\* The i-th smallest (i from 0) of the values of a list: the value with at
\* most i values strictly below it and more than i values not above it.
IsRanked(lat, i, v) ==
  /\ \E j \in DOMAIN lat : lat[j] = v
  /\ Cardinality({j \in DOMAIN lat : lat[j] < v}) <= i
  /\ i < Cardinality({j \in DOMAIN lat : lat[j] <= v})

\* floor(n * pct / 100) clamped to n - 1.
NearestRank(n, pct) ==
  LET k == CHOOSE k \in 0..n : 100 * k <= n * pct /\ n * pct < 100 * (k + 1)
  IN IF k < n - 1 THEN k ELSE n - 1

\* C20  Nearest-rank percentile: for every non-empty list of n diffs, p95 is
\* the element of the ascending list at index min(floor(n * 0.95), n - 1) and
\* p99 the one at index min(floor(n * 0.99), n - 1); both indices lie within
\* 0..n-1 and both values are elements of the list (no interpolation).
C20_NearestRank ==
  (IsSome(stats) /\ Unwrap(latencies) # <<>>) =>
    LET st == Unwrap(stats)
        lat == Unwrap(latencies)
        n == Len(lat)
    IN /\ NearestRank(n, 95) \in 0..(n - 1)
       /\ NearestRank(n, 99) \in 0..(n - 1)
       /\ st.p95[2] = 1
       /\ st.p99[2] = 1
       /\ IsRanked(lat, NearestRank(n, 95), st.p95[1])
       /\ IsRanked(lat, NearestRank(n, 99), st.p99[1])

\* C20 witness: the statistics of 21 distinct diffs, whose 95th rank (index
\* 19) is not the last element.
C20_Witness ==
  /\ IsSome(stats)
  /\ Len(Unwrap(latencies)) = 21
  /\ Unwrap(stats).p95 = <<20, 1>>
  /\ Unwrap(stats).max = 21

\* The events for which some handler has applied an upsert.
UpsertedEvents == { slot[1] : slot \in DOMAIN firstUpsert }

\* C14  Records are created lazily and never deleted: the store holds a
\* record for exactly the events for which an upsert has been applied (none
\* before the first one); no step removes a record, and no step removes or
\* changes a timestamp a record holds.
C14_RecordsOnlyGrow ==
  /\ [](DOMAIN transactions = UpsertedEvents)
  /\ [][/\ DOMAIN transactions \subseteq DOMAIN transactions'
        /\ \A e \in DOMAIN transactions : \A s \in Sources :
             HasSlot(transactions, e, s)
               => Slot(transactions', e, s) = Slot(transactions, e, s)]_vars

\* C14 witness: after the run has returned, a record that holds the
\* timestamps of two sources and to which a further upsert was applied.
C14_Witness ==
  /\ ctl \in {"Finalizing", "Done"}
  /\ \E e \in DOMAIN transactions :
       /\ Cardinality({s \in Sources : HasSlot(transactions, e, s)}) = 2
       /\ \E s \in Sources : <<e, s>> \in dupUpserts

\* C15  Malformed events are skipped: the step in which the Shredlink handler
\* takes a message with an empty signature list from its channel leaves the
\* store unchanged and leaves the handler at rx.recv() holding nothing of that
\* message; and the handler at rx.recv() takes the next message whenever its
\* channel holds one.
C15_MalformedSkipped ==
  /\ [][(/\ hpc[Shredlink] = "recv"
         /\ chan[Shredlink] # <<>>
         /\ Head(chan[Shredlink]) = <<>>
         /\ Len(chan'[Shredlink]) < Len(chan[Shredlink]))
          => /\ transactions' = transactions
             /\ chan'[Shredlink] = Tail(chan[Shredlink])
             /\ hpc'[Shredlink] = "recv"
             /\ pending'[Shredlink] = None]_vars
  /\ []((ctl # "Exited" /\ hpc[Shredlink] = "recv" /\ chan[Shredlink] # <<>>)
          => ENABLED HandlerRecv(Shredlink))

\* C15 witness: two events were sent, no channel holds a message, the store
\* is empty and only the Shredlink handler holds an event: the first message
\* of Shredlink was skipped and the handler has taken the one after it.
C15_Witness ==
  /\ ctl = "Running"
  /\ emitted = 2
  /\ \A s \in Sources : chan[s] = <<>>
  /\ \A g \in Geysers : pending[g] = None
  /\ transactions = <<>>
  /\ hpc[Shredlink] = "upsert"

\* C16 as stated: while run() is in select! a call of generate_report is
\* possible (its first pass can be taken).
C16_ReportCallableWhileRunning ==
  ctl = "Running" => ENABLED ReportStep

\* C16 as amended: no pass of generate_report is taken before run() has
\* returned Ok (until then the report is untouched); while run() is in
\* select! the view of the store is the ticker's, whose counts are those of
\* the records upserted up to that tick.
C16_ReportOnlyAfterRun ==
  /\ [](ctl \in {"Idle", "Running"} => rep = IdleRep)
  /\ [][rep' # rep => (ctl = "Finalizing" /\ runResult = Some("Ok"))]_vars
  /\ [][(ctl = "Running" /\ ctl' = "Running" /\ liveStats' # liveStats)
          => /\ liveStats'.total = Cardinality(DOMAIN transactions)
             /\ liveStats'.matched =
                  Cardinality({e \in DOMAIN transactions :
                                 /\ HasSlot(transactions, e, Shredlink)
                                 /\ \E g \in Geysers : HasSlot(transactions, e, g)})]_vars

\* C16 witness: run() has returned, generate_report is between two of its
\* passes and a handler still holds an event it has not upserted.
C16_Witness ==
  /\ ctl = "Finalizing"
  /\ rep.pc = "only"
  /\ \E s \in Sources : hpc[s] = "upsert"

\* C17  Only upsert mutates the store: a step of the ticker (the timer
\* advances) or of generate_report (the report advances) leaves the store as
\* it is; every step that changes the store is a handler applying the upsert
\* it holds, and it changes nothing but the slot of that handler's source in
\* the record of that event.
C17_OnlyUpsertMutates ==
  [][/\ (timer' # timer \/ rep' # rep \/ liveStats' # liveStats)
          => transactions' = transactions
     /\ transactions' # transactions
          => \E s \in Sources :
               /\ hpc[s] = "upsert"
               /\ hpc'[s] = "recv"
               /\ LET p == Unwrap(pending[s])
                  IN /\ DOMAIN transactions' = DOMAIN transactions \cup {p.signature}
                     /\ \A e \in DOMAIN transactions' : \A o \in Sources :
                          <<e, o>> # <<p.signature, s>>
                            => Slot(transactions', e, o) = Slot(transactions, e, o)]_vars

\* C17 witness: the ticker has read a store of two records while run() is in
\* select!, and the two records are in the store.
C17_Witness ==
  /\ ctl = "Running"
  /\ liveStats.total = 2
  /\ Cardinality(DOMAIN transactions) = 2

\* The lines due for a store: one for every event and Geyser whose record
\* holds both that Geyser's and the Shredlink timestamp, carrying the Geyser's
\* timestamp minus Shredlink's.
DueNotifications(store) ==
  { Notification(e, g, Unwrap(Slot(store, e, g)) - Unwrap(Slot(store, e, Shredlink))) :
      <<e, g>> \in {x \in (DOMAIN store) \X Geysers :
                      HasSlot(store, x[1], x[2]) /\ HasSlot(store, x[1], Shredlink)} }

\* C19  Latency notification exactly at completion: in every state the lines
\* printed so far are exactly the lines due for the store, each printed once.
\* So a line for (e, g) appears in the step whose upsert makes the record of
\* e hold both timestamps, with g's timestamp minus the reference timestamp,
\* and neither the upsert creating a record nor an ignored duplicate prints.
C19_NotifiedOnceAtCompletion ==
  /\ DOMAIN notified = DueNotifications(transactions)
  /\ \A n \in DOMAIN notified : notified[n] = 1

\* C19 witness: a line was printed for a record and Geyser, and a later
\* upsert of that Geyser for the same event, with another timestamp, was
\* applied and ignored.
C19_Witness ==
  \E n \in DOMAIN notified :
    /\ <<n.signature, n.geyser>> \in dupUpserts
    /\ n.diff # 0

\* A second case of C19: the Shredlink upsert completes the record for both
\* Geysers at once.
C19_WitnessBoth ==
  /\ Cardinality(DOMAIN notified) = 2
  /\ \A n \in DOMAIN notified : \A m \in DOMAIN notified : n.signature = m.signature

\* C18  The live ticker does not block ingestion: the reader holds the read
\* lock of at most one shard at a time and of none while it is not inside
\* get_current_stats; whenever a handler waits for a shard, the holder of
\* that shard can take its next step (no deadlock); and every upsert a handler
\* holds is eventually applied.
C18_TickerDoesNotBlockIngestion ==
  /\ [](Cardinality({i \in Shards : shardLock[i] = "read"}) <= 1)
  /\ [](tick.pc \in {"idle", "ret"} => \A i \in Shards : shardLock[i] # "read")
  /\ [](\A s \in Sources :
          (ctl # "Exited" /\ hpc[s] = "upsert")
            => \/ ENABLED EntryLock(s)
               \/ ENABLED StatsUnlock
               \/ \E o \in Sources : ENABLED EntryApply(o))
  /\ \A s \in Sources : (hpc[s] \in {"upsert", "entry"}) ~> (hpc[s] = "recv")

\* C18 witness: the ticker holds the read lock of a shard inside iter() while
\* a handler waits to upsert a key of that shard.
C18_Witness ==
  /\ tick.pc = "iter"
  /\ tick.held
  /\ \E s \in Sources :
       /\ hpc[s] = "upsert"
       /\ ShardOf(Unwrap(pending[s]).signature) = tick.shard

\* C21  Report internal consistency under concurrent ingestion: in every
\* finished report and for every Geyser g, the matched count of g plus the
\* comparison-only count of g plus the Shredlink-only count is at most the
\* total number of records reported.
C21_ReportCountsWithinTotal ==
  rep.pc = "done" =>
    \A g \in Geysers :
      rep.geyser_results[g].matched_transactions
        + rep.geyser_results[g].geyser_only_count
        + rep.shredlink_only_count
      <= rep.total_transactions

\* The records of a store that hold the timestamp of g, and those that hold
\* the timestamp of any Geyser.
RecordsOf(store, g) == {e \in DOMAIN store : HasSlot(store, e, g)}
RecordsOfAnyGeyser(store) == {e \in DOMAIN store : \E g \in Geysers : HasSlot(store, e, g)}

\* C22  Accounting partition on a quiescent store: every record holds at
\* least one timestamp; and a report all of whose passes ran on a quiescent
\* store has a total equal to the Shredlink-only count plus the number of
\* records with at least one Geyser timestamp and, for every Geyser g, a
\* matched count plus comparison-only count equal to the number of records
\* holding g's timestamp.
C22_AccountingPartition ==
  /\ \A e \in DOMAIN transactions : \E s \in Sources : HasSlot(transactions, e, s)
  /\ (rep.pc = "done" /\ rep.quiet) =>
       /\ rep.total_transactions =
            rep.shredlink_only_count + Cardinality(RecordsOfAnyGeyser(transactions))
       /\ \A g \in Geysers :
            rep.geyser_results[g].matched_transactions
              + rep.geyser_results[g].geyser_only_count
            = Cardinality(RecordsOf(transactions, g))

\* C22 witness: a report taken of a quiescent store of two records, one
\* Shredlink-only and one with a Geyser timestamp.
C22_Witness ==
  /\ rep.pc = "done"
  /\ rep.quiet
  /\ rep.total_transactions = 2
  /\ rep.shredlink_only_count = 1

\* A second case of C22: a quiescent report with a matched record.
C22_WitnessMatched ==
  /\ rep.pc = "done"
  /\ rep.quiet
  /\ \E g \in Geysers : rep.geyser_results[g].matched_transactions = 1

\* The diff of event e against Geyser g as latency_diffs_ms reports it, None
\* when the record is not matched for g.
DiffOf(store, e, g) ==
  IF e \in DOMAIN store /\ g \in DOMAIN latency_diffs_ms(store[e])
    THEN Some(latency_diffs_ms(store[e])[g])
    ELSE None

\* C23  Matched pairs are stable: a record that latency_diffs_ms reports a
\* diff for against Geyser g has, after every step, a diff against g, and
\* the same one.
C23_MatchedPairsStable ==
  [][\A e \in DOMAIN transactions : \A g \in Geysers :
       IsSome(DiffOf(transactions, e, g))
         => DiffOf(transactions', e, g) = DiffOf(transactions, e, g)]_vars

\* C23 witness: a record matched for a Geyser with a non-zero diff, and the
\* Shredlink handler holding a later event of the same id, whose upsert is
\* the next step of that handler.
C23_Witness ==
  \E e \in DOMAIN transactions : \E g \in Geysers :
    /\ IsSome(DiffOf(transactions, e, g))
    /\ Unwrap(DiffOf(transactions, e, g)) # 0
    /\ hpc[Shredlink] = "upsert"
    /\ Unwrap(pending[Shredlink]).signature = e
    /\ Unwrap(pending[Shredlink]).timestamp # Unwrap(Slot(transactions, e, Shredlink))

\* C24  Frame of an upsert: the step in which the handler of source s applies
\* the upsert it holds for event e adds no record but e's, leaves the record
\* of every other event as it is, and within the record of e leaves the
\* timestamp of every other source as it is (present or absent); the slot
\* (e, s) itself is left as it is when it was already set.
C24_UpsertFrame ==
  [][\A s \in Sources :
       (hpc[s] \in {"upsert", "entry"} /\ hpc'[s] = "recv")
         => LET e == Unwrap(pending[s]).signature
            IN /\ DOMAIN transactions' = DOMAIN transactions \cup {e}
               /\ \A o \in DOMAIN transactions :
                    o # e => transactions'[o] = transactions[o]
               /\ \A o \in Sources \ {s} :
                    Slot(transactions', e, o) = Slot(transactions, e, o)
               /\ HasSlot(transactions, e, s)
                    => transactions'[e] = transactions[e]]_vars

\* C24 witness: a record holding the timestamps of all three sources (the
\* upsert applied last found the other two in the record), while the run is
\* still in select!.
C24_Witness ==
  /\ ctl = "Running"
  /\ \E e \in DOMAIN transactions : \A s \in Sources : HasSlot(transactions, e, s)

\* C25  Timer granularity: the timer branch checks its deadline only when a
\* one-tick sleep ends (and once when run starts).  Waking from a sleep it
\* completes exactly when the elapsed time has reached the duration, and
\* otherwise sleeps one more tick; the sleep it completes after began before
\* the deadline (at most one tick late).  A run of duration 0 completes in
\* its first poll, at time 0 without a sleep, with every client dropped
\* while connecting, nothing sent and an empty store, and from such a state
\* the store stays empty.
C25_TimerGranularity ==
  [][/\ (timer.pc = "sleep" /\ timer' # timer /\ timer'.pc # "dropped")
          => /\ timer'.pc = "done" <=> now >= duration
             /\ timer'.pc = "done" => /\ timer.wake - TickSecs < duration
                                      /\ ctl' = "Finalizing"
             /\ timer'.pc # "done" => timer' = [pc |-> "sleep", wake |-> now + TickSecs]
     /\ (ctl = "Idle" /\ ctl' # "Idle")
          => \/ /\ ctl' = "Running"
                /\ duration' > 0
                /\ timer' = [pc |-> "sleep", wake |-> now + TickSecs]
             \/ /\ ctl' = "Finalizing"
                /\ timer'.pc = "done"
                /\ now' = 0
                /\ \A s \in Sources : client'[s] = "dropped"
                /\ Quiescent'
                /\ transactions' = << >>
     /\ (ctl \in {"Finalizing", "Done"} /\ Quiescent /\ transactions = << >>)
          => (Quiescent' /\ transactions' = << >>)]_vars

\* C25 witness: the timer has completed after at least one tick, with events
\* delivered during the run.
C25_Witness ==
  /\ ctl = "Finalizing"
  /\ timer.pc = "done"
  /\ now >= TickSecs
  /\ transactions # << >>

\* C25, second witness: a run of duration 0 has been finalized at time 0.
C25_WitnessZero ==
  /\ ctl = "Finalizing"
  /\ timer.pc = "done"
  /\ now = 0
  /\ runResult = Some("Ok")
  /\ transactions = << >>

\* C25, third witness: the timer woke before the deadline and sleeps again.
C25_WitnessRearmed ==
  /\ ctl = "Running"
  /\ timer.pc = "sleep"
  /\ timer.wake > TickSecs
  /\ duration >= timer.wake

=============================================================================
